---- MODULE Spec2Model ----
(***************************************************************************)
(* The retry-and-backoff request executor of httpwrapper: BaseClient       *)
(* (blocking, httpx) and BaseAsyncClient (asyncio, aiohttp).               *)
(*                                                                         *)
(* One session of one variant is constructed (Init); the calls of Calls    *)
(* are issued on it.  A blocking call runs on a thread of its own; the     *)
(* calls of the concurrent variant are tasks of one event loop, of which   *)
(* at most one runs at a time (loopThread) and which give up the loop      *)
(* only at an await.                                                       *)
(*                                                                         *)
(* Spec draws the configs of the calls from every retry limit of the       *)
(* model; SpecArgs draws the hosts, urls, params, bodies and streams of    *)
(* one call instead; FairSpec is Spec with the progress the environment    *)
(* owes a call.                                                            *)
(***************************************************************************)
EXTENDS Integers, Sequences, FiniteSets, TLC

\* ------------------------------------------------------------ bounds
\* Largest retry limit a config of the model carries (the code's default is 99).
MaxRetry == 3

\* Number of chunks in a raw content stream.
StreamLen == 2

\* The concurrent calls issued on the session.
Calls == {"a", "b"}

\* ------------------------------------------------------------ values
\* Python's None where a string is expected (a proxy), where a config
\* object is expected (the `config` parameter), and where a dict or a stream
\* is expected (params, json_data, content/data).
None == "None"
NoConfig == [absent |-> TRUE]
NoValue == [absent |-> TRUE]

\* `config or self.__config`: a dataclass instance is always truthy, so the
\* right operand is taken exactly when config is None.
ConfigOr(config, default) == IF config = NoConfig THEN default ELSE config

\* `proxy or None`: None and the empty string are falsy.
ProxyOrNone(proxy) == IF proxy = None \/ proxy = "" THEN None ELSE proxy

\* A dict, by its keys; `params or None` / `json_data or None`: None and
\* the empty dict are falsy.
Dict(keys) == [items |-> keys]
DictOrNone(d) == IF d = NoValue \/ d = Dict({}) THEN NoValue ELSE d

\* A raw content stream (an open BufferedReader of StreamLen chunks).
Stream == [stream |-> "file", chunks |-> StreamLen]

Variants == {"sync", "async"}

\* The dataclass defaults of ClientConfig / AsyncClientConfig.
DefaultTimeout == 99
DefaultSleepTime == 1
DefaultSleepTimeIncrement == 3

\* The dataclasses: plain field holders, no __post_init__, no validation.
ClientConfig(retry, timeout, sleep_time, sleep_time_increment, follow_redirects) ==
    [retry |-> retry, timeout |-> timeout, sleep_time |-> sleep_time,
     sleep_time_increment |-> sleep_time_increment,
     follow_redirects |-> follow_redirects]

AsyncClientConfig(retry, timeout, sleep_time, sleep_time_increment, allow_redirects, proxy) ==
    [retry |-> retry, timeout |-> timeout, sleep_time |-> sleep_time,
     sleep_time_increment |-> sleep_time_increment,
     allow_redirects |-> allow_redirects, proxy |-> proxy]

\* ------------------------------------------------------------ hosts and urls
\* A string is the sequence of its parts: "H" is a scheme and authority
\* ("https://api.example.com"), "/" a slash, any other part a path segment.
EndsWithSlash(s) == Len(s) > 0 /\ s[Len(s)] = "/"
StartsWithSlash(s) == Len(s) > 0 /\ s[1] = "/"

\* An async constructor that passes the host on as it is given.
AsyncHostAsGiven(host) == host

\* BaseClient.__init__: `if host.endswith("/"): host = host[:-1]`
SyncHost(host) == IF EndsWithSlash(host) THEN SubSeq(host, 1, Len(host) - 1) ELSE host

\* BaseAsyncClient.__init__: `if not host.endswith("/"): host = host + "/"`
AsyncHost(host) == IF EndsWithSlash(host) THEN host ELSE Append(host, "/")

\* BaseAsyncClient._request: `if url.startswith("/"): url = url[1:]`
AsyncUrl(url) == IF StartsWithSlash(url) THEN Tail(url) ELSE url

RECURSIVE LStripSlashes(_)
LStripSlashes(s) == IF StartsWithSlash(s) THEN LStripSlashes(Tail(s)) ELSE s

RECURSIVE UpToLastSlash(_)
UpToLastSlash(s) ==
    IF s = <<>> \/ EndsWithSlash(s) THEN s ELSE UpToLastSlash(SubSeq(s, 1, Len(s) - 1))

\* httpx.Client(base_url=host) keeps the base with a trailing slash, and a
\* relative url is appended to it without its leading slashes.
HttpxTarget(base, url) ==
    (IF EndsWithSlash(base) THEN base ELSE Append(base, "/")) \o LStripSlashes(url)

\* aiohttp.ClientSession(base_url=host) resolves a relative url against the
\* base: a url that starts with a slash replaces the base's path, any other
\* replaces what follows the base's last slash.
AiohttpTarget(base, url) ==
    IF StartsWithSlash(url)
    THEN <<base[1]>> \o url
    ELSE (IF Len(base) = 1 THEN Append(base, "/") ELSE UpToLastSlash(base)) \o url

\* The base url the session's client is built with.
BaseUrl(v, host) == IF v = "sync" THEN SyncHost(host) ELSE AsyncHost(host)

\* The local `url` of _request: only the concurrent variant rewrites it.
LocalUrl(v, url) == IF v = "sync" THEN url ELSE AsyncUrl(url)

\* The address an exchange goes to.
Target(v, base, url) ==
    IF v = "sync" THEN HttpxTarget(base, url) ELSE AiohttpTarget(base, url)

Widgets == <<"/", "widgets">>
Hosts == { <<"H">>, <<"H", "/">>, <<"H", "/", "api">>, <<"H", "/", "api", "/">> }
Urls == { Widgets, <<"widgets">> }

\* ------------------------------------------------------------ inputs
\* A config with retry limit r carries one of three settings of its other
\* fields: the dataclass defaults, or one of two settings that differ from
\* the defaults in every field.
SettingsFor(r) ==
    CASE r % 3 = 0 -> [timeout |-> DefaultTimeout, sleep_time |-> DefaultSleepTime,
                       sleep_time_increment |-> DefaultSleepTimeIncrement,
                       redirects |-> FALSE, proxy |-> None]
      [] r % 3 = 1 -> [timeout |-> 5, sleep_time |-> 2, sleep_time_increment |-> 1,
                       redirects |-> TRUE, proxy |-> "http://p1"]
      [] OTHER     -> [timeout |-> 7, sleep_time |-> 0, sleep_time_increment |-> 2,
                       redirects |-> TRUE, proxy |-> ""]

Retries == (-1) .. MaxRetry

ConfigFor(v, r) ==
    LET s == SettingsFor(r) IN
    IF v = "sync"
    THEN ClientConfig(r, s.timeout, s.sleep_time, s.sleep_time_increment, s.redirects)
    ELSE AsyncClientConfig(r, s.timeout, s.sleep_time, s.sleep_time_increment,
                           s.redirects, s.proxy)

ConfigsOf(v) == { ConfigFor(v, r) : r \in Retries }

\* The verb entry point a call with a given override goes through (the
\* method takes no part in the retry loop).
VerbFor(r) ==
    CASE r % 4 = 0 -> "_post" [] r % 4 = 1 -> "_put" [] r % 4 = 2 -> "_delete"
      [] OTHER -> "_get"

\* What a caller passes to a verb entry point.
Call(verb, url, params, json_data, content, cfg) ==
    [verb |-> verb, url |-> url, params |-> params, json_data |-> json_data,
     content |-> content, config |-> cfg]

\* The calls of Spec: a verb and the config argument passed to it.
CallInputs(v) ==
    {Call("_get", Widgets, NoValue, NoValue, NoValue, NoConfig)}
        \cup {Call(VerbFor(r), Widgets, NoValue, NoValue, NoValue, ConfigFor(v, r)) :
                r \in Retries}

\* The calls of SpecArgs: every verb with every url, params, JSON body and
\* raw content its signature takes, with and without an override.
DictInputs == {NoValue, Dict({}), Dict({"k"})}

ArgInputs(v) ==
    {Call(verb, u, p, NoValue, NoValue, cfg) :
        verb \in {"_get", "_delete"}, u \in Urls, p \in DictInputs,
        cfg \in {NoConfig, ConfigFor(v, 1)}}
    \cup
    {Call(verb, u, p, j, s, cfg) :
        verb \in {"_post", "_put"}, u \in Urls, p \in DictInputs, j \in DictInputs,
        s \in {NoValue, Stream}, cfg \in {NoConfig, ConfigFor(v, 1)}}

\* ------------------------------------------------------------ state
VARIABLES
    variant,      \* "sync": the session is a BaseClient; "async": a BaseAsyncClient
    defaultCfg,   \* self.__config, the session's default config
    clientProxy,  \* the proxy the ClientSession was built with (async), else None
    host,         \* the host the constructor was given
    baseUrl,      \* the base_url the session's client was built with
    inputs,       \* per call: the calls the application may issue
    session,      \* "live", or "discarded" once the session object is gone
    handle,       \* the transport handle self._client: "open" or "closed"
    closeCalls,   \* how many times self._client.close() has run
    loopThread,   \* async: the task running on the event loop's thread, or NoTask
    pc,           \* per call: where the call is in _request
    call,         \* per call: what the caller passed to the verb entry point
    method,       \* per call: the HTTP method of the verb entry point
    override,     \* per call: the config argument (NoConfig when not passed)
    config,       \* per call: the local `config`, the effective config
    local,        \* per call: the locals url, params, json_data and content/data
    streamPos,    \* per call: how many chunks of the content stream have been read
    count,        \* per call: the local `count`
    sleepTime,    \* per call: the local `_sleep_time`
    exc,          \* per call: the `e` bound inside the except clause
    requests,     \* per call: the arguments of every transport invocation, in order
    outcomes,     \* per call: how every transport exchange ended, in order
    sleeps,       \* per call: the argument of every sleep() performed, in order
    logs,         \* per call: the log events emitted, in order
    response,     \* per call: BaseClient's local `response`
    result        \* per call: what the caller got: a response or a raised error

sessionVars == <<variant, defaultCfg, clientProxy, host, baseUrl, inputs>>
lifeVars == <<session, handle, closeCalls>>
callVars == <<pc, call, method, override, config, local, streamPos, count, sleepTime,
              exc, requests, outcomes, sleeps, logs, response, result>>

vars == <<sessionVars, lifeVars, loopThread, callVars>>

NoTask == "-"
NoResult == [kind |-> "none"]

\* The redirect flag of a config: follow_redirects in ClientConfig,
\* allow_redirects in AsyncClientConfig.
Redirects(cfg) == IF variant = "sync" THEN cfg.follow_redirects ELSE cfg.allow_redirects

\* What a transport exchange can end in: a response with some HTTP status, or
\* an exception (httpx.RequestError or any other Exception subclass).
Statuses == {200, 500}
ErrKinds == {"RequestError", "Exception"}

Response(c, status) == [kind |-> "response", status |-> status, attempt |-> count[c]]
Error(c, kind, at) == [kind |-> "error", exc |-> kind, attempt |-> count[c], at |-> at]

\* The log events of _request.
RequestEvent(c) == [level |-> "debug", event |-> "request", attempt |-> count[c] + 1]
ResponseEvent(c, resp) ==
    [level |-> "debug", event |-> "response", attempt |-> resp.attempt,
     status |-> resp.status]
AttemptFailedEvent(c) ==
    [level |-> "error", event |-> "attempt failed", attempt |-> count[c],
     retry |-> config[c].retry]
MaxRetriesEvent(c) == [level |-> "error", event |-> "max retries exceeded"]

\* ------------------------------------------------------------ construction
\* BaseClient.__init__ / BaseAsyncClient.__init__: the config is stored as it
\* is given; the concurrent variant hands its proxy to the ClientSession.
SessionProxy(v, cfg) == IF v = "async" THEN ProxyOrNone(cfg.proxy) ELSE None

\* The state a constructor leaves, for a given host and default config, with
\* no call issued yet.
Constructed(h, cfg) ==
    /\ host = h
    /\ baseUrl = BaseUrl(variant, h)
    /\ defaultCfg = cfg
    /\ clientProxy = SessionProxy(variant, cfg)
    /\ session = "live"
    /\ handle = "open"
    /\ closeCalls = 0
    /\ loopThread = NoTask
    /\ pc = [c \in Calls |-> "idle"]
    /\ call = [c \in Calls |-> NoValue]
    /\ method = [c \in Calls |-> None]
    /\ override = [c \in Calls |-> NoConfig]
    /\ config = [c \in Calls |-> NoConfig]
    /\ local = [c \in Calls |-> NoValue]
    /\ streamPos = [c \in Calls |-> 0]
    /\ count = [c \in Calls |-> 0]
    /\ sleepTime = [c \in Calls |-> 0]
    /\ exc = [c \in Calls |-> NoResult]
    /\ requests = [c \in Calls |-> <<>>]
    /\ outcomes = [c \in Calls |-> <<>>]
    /\ sleeps = [c \in Calls |-> <<>>]
    /\ logs = [c \in Calls |-> <<>>]
    /\ response = [c \in Calls |-> NoResult]
    /\ result = [c \in Calls |-> NoResult]

\* Any default config, the host of the example, and the calls of CallInputs
\* for every call.
Init ==
    /\ variant \in Variants
    /\ \E cfg \in ConfigsOf(variant) : Constructed(<<"H", "/">>, cfg)
    /\ inputs = [c \in Calls |-> CallInputs(variant)]

\* Any host, a default config of retry limit 2, and the calls of ArgInputs
\* for one call.
InitArgs ==
    /\ variant \in Variants
    /\ \E h \in Hosts : Constructed(h, ConfigFor(variant, 2))
    /\ inputs = [c \in Calls |-> IF c = "a" THEN ArgInputs(variant) ELSE {}]

\* Any default config and the host of the example; one call takes any of
\* the calls of CallInputs, the other runs on the session default.
InitFair ==
    /\ variant \in Variants
    /\ \E cfg \in ConfigsOf(variant) : Constructed(<<"H", "/">>, cfg)
    /\ inputs = [c \in Calls |->
                    IF c = "a"
                    THEN CallInputs(variant)
                    ELSE {Call("_get", Widgets, NoValue, NoValue, NoValue, NoConfig)}]

\* ------------------------------------------------------------ scheduling
\* A blocking call has a thread of its own.  A task of the concurrent variant
\* is resumed only when no task holds the event loop's thread, and then holds
\* it until its next await.
CanResume(c) == variant = "async" => loopThread = NoTask
Running(c) == variant = "async" => loopThread = c

Hold(c) == IF variant = "async" THEN c ELSE NoTask

\* No call is inside _request.
Quiescent == \A c \in Calls : pc[c] \in {"idle", "returned", "raised"}

\* ------------------------------------------------------------ verb entry points
\* The parameters of _request as a call binds them.
RequestArgs(m, url, params, json_data, cfg, content) ==
    [method |-> m, url |-> url, params |-> params, json_data |-> json_data,
     config |-> cfg, content |-> content]

\* `return self._request("GET", url, params, config=config)`
Get(url, params, cfg) == RequestArgs("GET", url, params, NoValue, cfg, NoValue)

\* `return self._request("POST", url, params, json_data, config, content)`
Post(url, params, json_data, cfg, content) ==
    RequestArgs("POST", url, params, json_data, cfg, content)

\* A _put copied from _post with the method left as it was.
PutAsPost(url, params, json_data, cfg, content) ==
    RequestArgs("POST", url, params, json_data, cfg, content)

\* `return self._request("PUT", url, params, json_data, config, content)`
Put(url, params, json_data, cfg, content) ==
    RequestArgs("PUT", url, params, json_data, cfg, content)

\* `return self._request("DELETE", url, params, config=config)`
Delete(url, params, cfg) == RequestArgs("DELETE", url, params, NoValue, cfg, NoValue)

Dispatch(in) ==
    CASE in.verb = "_get" -> Get(in.url, in.params, in.config)
      [] in.verb = "_post" -> Post(in.url, in.params, in.json_data, in.config, in.content)
      [] in.verb = "_put" -> Put(in.url, in.params, in.json_data, in.config, in.content)
      [] in.verb = "_delete" -> Delete(in.url, in.params, in.config)

\* ------------------------------------------------------------ _request
\* `config = config or self.__config`
EffectiveConfig(cfg, sessionCfg) == ConfigOr(cfg, sessionCfg)

\* A budget test that fires at the limit only, not past it.
BudgetSpentExactly(cnt, cfg) == cnt = cfg.retry

\* A budget test that is off by one.
BudgetSpentLate(cnt, cfg) == cnt > cfg.retry

\* `if count >= config.retry`
BudgetSpent(cnt, cfg) == cnt >= cfg.retry

\* A backoff that doubles instead of growing by the increment.
NextSleepTimeDoubling(st, cfg) == st * 2

\* A backoff that shrinks by the increment.
NextSleepTimeShrinking(st, cfg) == st - cfg.sleep_time_increment

\* `_sleep_time += config.sleep_time_increment`
NextSleepTime(st, cfg) == st + cfg.sleep_time_increment

\* An exhaustion error that wraps the last failure.
RaisedWrapped(e) ==
    [kind |-> "error", exc |-> "TransportExhaustedError", attempts |-> e.attempt,
     cause |-> e]

\* `raise e`
Raised(e) == e

\* `params, json_data = params or None, json_data or None`, and the url
\* rewrite of the concurrent variant; content/data is kept as it is.
Locals(a) ==
    [url |-> LocalUrl(variant, a.url), params |-> DictOrNone(a.params),
     json_data |-> DictOrNone(a.json_data), content |-> a.content]

\* The arguments of self._client.request(...), the address and the proxy the
\* session routes the exchange through, and the position the content stream
\* is at when it is handed over.
TransportArgs(c) ==
    [method |-> method[c], url |-> local[c].url,
     target |-> Target(variant, baseUrl, local[c].url),
     params |-> local[c].params, json |-> local[c].json_data,
     content |-> local[c].content, from |-> streamPos[c],
     timeout |-> config[c].timeout,
     redirects |-> Redirects(config[c]), proxy |-> clientProxy]

\* A verb entry point (_get, _post, _put, _delete) calls _request, which
\* resolves the effective config and initialises count and _sleep_time.
Request(c) ==
    /\ pc[c] = "idle"
    /\ session = "live"
    /\ handle = "open"
    /\ CanResume(c)
    /\ \E in \in inputs[c] :
         LET a == Dispatch(in) IN
         /\ call' = [call EXCEPT ![c] = in]
         /\ method' = [method EXCEPT ![c] = a.method]
         /\ override' = [override EXCEPT ![c] = a.config]
         /\ config' = [config EXCEPT ![c] = EffectiveConfig(a.config, defaultCfg)]
         /\ sleepTime' = [sleepTime EXCEPT ![c] =
                             EffectiveConfig(a.config, defaultCfg).sleep_time]
         /\ local' = [local EXCEPT ![c] = Locals(a)]
    /\ count' = [count EXCEPT ![c] = 0]
    /\ pc' = [pc EXCEPT ![c] = "loop"]
    /\ loopThread' = Hold(c)
    /\ UNCHANGED <<sessionVars, lifeVars, streamPos, exc, requests, outcomes,
                   sleeps, logs, response, result>>

\* An attempt that keeps the event loop while its exchange is in flight.
AttemptHoldingLoop(c) ==
    /\ pc[c] = "loop"
    /\ Running(c)
    /\ count' = [count EXCEPT ![c] = @ + 1]
    /\ logs' = [logs EXCEPT ![c] = Append(@, RequestEvent(c))]
    /\ requests' = [requests EXCEPT ![c] = Append(@, TransportArgs(c))]
    /\ pc' = [pc EXCEPT ![c] = "exchange"]
    /\ UNCHANGED <<sessionVars, lifeVars, loopThread, call, method, override, config,
                   local, streamPos, sleepTime, exc, outcomes, sleeps, response,
                   result>>

\* Top of the loop: count += 1, the request debug line, and the transport is
\* invoked (awaited in the concurrent variant, which gives up the event loop).
Attempt(c) ==
    /\ pc[c] = "loop"
    /\ Running(c)
    /\ count' = [count EXCEPT ![c] = @ + 1]
    /\ logs' = [logs EXCEPT ![c] = Append(@, RequestEvent(c))]
    /\ requests' = [requests EXCEPT ![c] = Append(@, TransportArgs(c))]
    /\ pc' = [pc EXCEPT ![c] = "exchange"]
    /\ loopThread' = NoTask
    /\ UNCHANGED <<sessionVars, lifeVars, call, method, override, config, local,
                   streamPos, sleepTime, exc, outcomes, sleeps, response, result>>

\* `return response`
Return(c, resp) ==
    /\ result' = [result EXCEPT ![c] = [kind |-> "returned", value |-> resp]]
    /\ pc' = [pc EXCEPT ![c] = "returned"]
    /\ UNCHANGED <<sleeps, loopThread, exc>>

\* An except clause that sleeps before it tests the budget.
ExceptSleepFirst(c, e) ==
    /\ sleeps' = [sleeps EXCEPT ![c] = Append(@, sleepTime[c])]
    /\ IF BudgetSpent(count[c], config[c])
       THEN /\ logs' = [logs EXCEPT ![c] = @ \o <<AttemptFailedEvent(c), MaxRetriesEvent(c)>>]
            /\ result' = [result EXCEPT ![c] = [kind |-> "raised", value |-> Raised(e)]]
            /\ pc' = [pc EXCEPT ![c] = "raised"]
            /\ UNCHANGED <<loopThread, exc>>
       ELSE /\ logs' = [logs EXCEPT ![c] = Append(@, AttemptFailedEvent(c))]
            /\ exc' = [exc EXCEPT ![c] = e]
            /\ pc' = [pc EXCEPT ![c] = "sleeping"]
            /\ loopThread' = Hold(c)
            /\ UNCHANGED result

\* An except clause that retries transport errors only.
ExceptRequestErrorOnly(c, e) ==
    IF BudgetSpent(count[c], config[c]) \/ e.exc # "RequestError"
    THEN /\ logs' = [logs EXCEPT ![c] = @ \o <<AttemptFailedEvent(c), MaxRetriesEvent(c)>>]
         /\ result' = [result EXCEPT ![c] = [kind |-> "raised", value |-> Raised(e)]]
         /\ pc' = [pc EXCEPT ![c] = "raised"]
         /\ UNCHANGED <<sleeps, loopThread, exc>>
    ELSE /\ logs' = [logs EXCEPT ![c] = Append(@, AttemptFailedEvent(c))]
         /\ sleeps' = [sleeps EXCEPT ![c] = Append(@, sleepTime[c])]
         /\ exc' = [exc EXCEPT ![c] = e]
         /\ pc' = [pc EXCEPT ![c] = "sleeping"]
         /\ loopThread' = Hold(c)
         /\ UNCHANGED result

\* An except clause that, on exhaustion, logs the terminal line instead of
\* the line of the failed attempt.
ExceptTerminalLineOnly(c, e) ==
    IF BudgetSpent(count[c], config[c])
    THEN /\ logs' = [logs EXCEPT ![c] = Append(@, MaxRetriesEvent(c))]
         /\ result' = [result EXCEPT ![c] = [kind |-> "raised", value |-> Raised(e)]]
         /\ pc' = [pc EXCEPT ![c] = "raised"]
         /\ UNCHANGED <<sleeps, loopThread, exc>>
    ELSE /\ logs' = [logs EXCEPT ![c] = Append(@, AttemptFailedEvent(c))]
         /\ sleeps' = [sleeps EXCEPT ![c] = Append(@, sleepTime[c])]
         /\ exc' = [exc EXCEPT ![c] = e]
         /\ pc' = [pc EXCEPT ![c] = "sleeping"]
         /\ loopThread' = Hold(c)
         /\ UNCHANGED result

\* The except clause: the "attempt failed" error line, the budget test, then
\* either the "max retries exceeded" line and `raise e`, or
\* `sleep(_sleep_time)`.  time.sleep blocks the calling thread; in the
\* concurrent variant that thread is the event loop's.
Except(c, e) ==
    IF BudgetSpent(count[c], config[c])
    THEN /\ logs' = [logs EXCEPT ![c] = @ \o <<AttemptFailedEvent(c), MaxRetriesEvent(c)>>]
         /\ result' = [result EXCEPT ![c] = [kind |-> "raised", value |-> Raised(e)]]
         /\ pc' = [pc EXCEPT ![c] = "raised"]
         /\ UNCHANGED <<sleeps, loopThread, exc>>
    ELSE /\ logs' = [logs EXCEPT ![c] = Append(@, AttemptFailedEvent(c))]
         /\ sleeps' = [sleeps EXCEPT ![c] = Append(@, sleepTime[c])]
         /\ exc' = [exc EXCEPT ![c] = e]
         /\ pc' = [pc EXCEPT ![c] = "sleeping"]
         /\ loopThread' = Hold(c)
         /\ UNCHANGED result

\* The chunks of the content stream an exchange may have read when it ends:
\* all of them when it returns a response, any number of the remaining ones
\* when it raises.  The stream is the caller's file object; nothing in
\* _request rewinds it.
ReadAll(c) == IF local[c].content = NoValue THEN streamPos[c] ELSE local[c].content.chunks
ReadSome(c) ==
    IF local[c].content = NoValue
    THEN {streamPos[c]}
    ELSE streamPos[c] .. local[c].content.chunks

\* The exchange returns a response.  BaseAsyncClient returns it at once;
\* BaseClient binds it to `response` and goes on to log it inside the try
\* block.
ExchangeReturns(c) ==
    /\ pc[c] = "exchange"
    /\ CanResume(c)
    /\ outcomes' = [outcomes EXCEPT ![c] = Append(@, "response")]
    /\ streamPos' = [streamPos EXCEPT ![c] = ReadAll(c)]
    /\ \E s \in Statuses :
         IF variant = "async"
         THEN /\ Return(c, Response(c, s))
              /\ UNCHANGED <<response, logs>>
         ELSE /\ response' = [response EXCEPT ![c] = Response(c, s)]
              /\ pc' = [pc EXCEPT ![c] = "logging"]
              /\ UNCHANGED <<result, sleeps, loopThread, exc, logs>>
    /\ UNCHANGED <<sessionVars, lifeVars, call, method, override, config, local,
                   count, sleepTime, requests>>

\* The exchange raises.
ExchangeRaises(c) ==
    /\ pc[c] = "exchange"
    /\ CanResume(c)
    /\ outcomes' = [outcomes EXCEPT ![c] = Append(@, "error")]
    /\ \E n \in ReadSome(c) : streamPos' = [streamPos EXCEPT ![c] = n]
    /\ \E k \in ErrKinds : Except(c, Error(c, k, "exchange"))
    /\ UNCHANGED <<sessionVars, lifeVars, call, method, override, config, local,
                   count, sleepTime, requests, response>>

\* BaseClient only: the debug line built from response.status_code and
\* response.text[:200] is evaluated without an exception and emitted, and
\* the response is returned.
ResponseLogged(c) ==
    /\ pc[c] = "logging"
    /\ logs' = [logs EXCEPT ![c] = Append(@, ResponseEvent(c, response[c]))]
    /\ Return(c, response[c])
    /\ UNCHANGED <<sessionVars, lifeVars, call, method, override, config, local,
                   streamPos, count, sleepTime, requests, outcomes, response>>

\* BaseClient only: evaluating the debug line raises; the line is inside the
\* try block, so the except clause handles the exception like a failed
\* exchange.  (`response` stays bound but is not read again before it is
\* rebound, so the model drops it.)
ResponseLogRaises(c) ==
    /\ pc[c] = "logging"
    /\ response' = [response EXCEPT ![c] = NoResult]
    /\ Except(c, Error(c, "Exception", "log"))
    /\ UNCHANGED <<sessionVars, lifeVars, call, method, override, config, local,
                   streamPos, count, sleepTime, requests, outcomes>>

\* A wake-up that adds the increment to the backoff of every call.
WakeUpSharedBackoff(c) ==
    /\ pc[c] = "sleeping"
    /\ Running(c)
    /\ sleepTime' = [d \in Calls |-> NextSleepTime(sleepTime[d], config[c])]
    /\ exc' = [exc EXCEPT ![c] = NoResult]
    /\ pc' = [pc EXCEPT ![c] = "loop"]
    /\ UNCHANGED <<sessionVars, lifeVars, loopThread, call, method, override, config,
                   local, streamPos, count, requests, outcomes, sleeps, logs,
                   response, result>>

\* sleep() returns; `_sleep_time += config.sleep_time_increment`; the except
\* clause ends (which unbinds `e`); back to the top of the loop without an
\* await in between.
WakeUp(c) ==
    /\ pc[c] = "sleeping"
    /\ Running(c)
    /\ sleepTime' = [sleepTime EXCEPT ![c] = NextSleepTime(@, config[c])]
    /\ exc' = [exc EXCEPT ![c] = NoResult]
    /\ pc' = [pc EXCEPT ![c] = "loop"]
    /\ UNCHANGED <<sessionVars, lifeVars, loopThread, call, method, override, config,
                   local, streamPos, count, requests, outcomes, sleeps, logs,
                   response, result>>

\* ------------------------------------------------------------ teardown
\* BaseAsyncClient.close: `await self._client.close()`.  Closing a
\* ClientSession that is closed already does nothing.  BaseClient has no
\* close method.  The application calls it at most once, between calls.
Close ==
    /\ variant = "async"
    /\ session = "live"
    /\ closeCalls = 0
    /\ Quiescent
    /\ loopThread = NoTask
    /\ closeCalls' = closeCalls + 1
    /\ handle' = "closed"
    /\ UNCHANGED <<sessionVars, session, loopThread, callVars>>

\* The session object is discarded.  BaseClient defines no finalizer and
\* leaves self._client as it is.  BaseAsyncClient.__del__ asks the event
\* loop to run close(); any exception on the way is suppressed (no usable
\* loop), and a task created on a running loop may never get to run, so
\* close() either runs or does not.
Finalize ==
    /\ session = "live"
    /\ Quiescent
    /\ loopThread = NoTask
    /\ session' = "discarded"
    /\ IF variant = "async"
       THEN \E closed \in BOOLEAN :
              IF closed
              THEN closeCalls' = closeCalls + 1 /\ handle' = "closed"
              ELSE UNCHANGED <<closeCalls, handle>>
       ELSE UNCHANGED <<closeCalls, handle>>
    /\ UNCHANGED <<sessionVars, loopThread, callVars>>

Step(c) ==
    \/ Request(c)
    \/ Attempt(c)
    \/ ExchangeReturns(c)
    \/ ExchangeRaises(c)
    \/ ResponseLogged(c)
    \/ ResponseLogRaises(c)
    \/ WakeUp(c)

Next ==
    \/ \E c \in Calls : Step(c)
    \/ Close
    \/ Finalize

Spec == Init /\ [][Next]_vars

SpecArgs == InitArgs /\ [][Next]_vars

\* What the environment owes a call that has been issued: the loop iterates,
\* every exchange ends, the response debug line ends, every sleep ends.
Progress(c) ==
    \/ Attempt(c)
    \/ ExchangeReturns(c)
    \/ ExchangeRaises(c)
    \/ ResponseLogged(c)
    \/ ResponseLogRaises(c)
    \/ WakeUp(c)

FairSpec == InitFair /\ [][Next]_vars /\ \A c \in Calls : WF_vars(Progress(c))

\* ------------------------------------------------------------ observations
Started(c) == pc[c] # "idle"
Limit(c) == config[c].retry
Invocations(c) == Len(requests[c])
Exchanges(c) == Len(outcomes[c])

\* Every transport exchange of the call so far has raised.
AllFailed(c) == \A i \in 1 .. Exchanges(c) : outcomes[c][i] = "error"

RECURSIVE SumSeq(_)
SumSeq(q) == IF q = <<>> THEN 0 ELSE q[1] + SumSeq(Tail(q))

\* ------------------------------------------------------------ claims

\* C1: for every effective retry limit N >= 1, a call whose transport
\* exchanges all fail invokes the transport exactly N times, and the error
\* is raised only once the N-th exchange has failed.
C1_AlwaysFailingInvokesExactlyN ==
    \A c \in Calls :
        (Started(c) /\ Limit(c) >= 1 /\ AllFailed(c)) =>
            /\ Invocations(c) <= Limit(c)
            /\ result[c].kind # "returned"
            /\ (result[c].kind = "raised" <=> Exchanges(c) = Limit(c))
            /\ (result[c].kind = "raised" => Invocations(c) = Limit(c))

C1_Witness ==
    \E c \in Calls :
        /\ Started(c)
        /\ Limit(c) >= 2
        /\ AllFailed(c)
        /\ result[c].kind = "raised"
        /\ Invocations(c) = Limit(c)

\* C2 (as claimed): for every retry limit N >= 1 and k <= N, once the
\* transport has failed on attempts 1..k-1 and returned a response on attempt
\* k, the transport has been invoked exactly k times, k-1 sleeps were made,
\* and the call ends by returning the response of attempt k.
C2_SuccessOnAttemptK ==
    \A c \in Calls : \A k \in 1 .. Exchanges(c) :
        (/\ Limit(c) >= 1
         /\ k <= Limit(c)
         /\ outcomes[c][k] = "response"
         /\ \A i \in 1 .. (k - 1) : outcomes[c][i] = "error") =>
            /\ Invocations(c) = k
            /\ Len(sleeps[c]) = k - 1
            /\ pc[c] \in {"logging", "returned"}
            /\ (pc[c] = "returned" =>
                    /\ result[c].kind = "returned"
                    /\ result[c].value.kind = "response"
                    /\ result[c].value.attempt = k)

\* C3: the i-th sleep of a call lasts sleep_time + (i-1) * sleep_time_increment
\* of the effective config, at most retry-1 sleeps are made, and a call that
\* returns after k failed attempts has slept k*sleep_time +
\* sleep_time_increment*k*(k-1)/2 in total.
C3_LinearBackoff ==
    \A c \in Calls :
        Started(c) =>
            /\ \A i \in 1 .. Len(sleeps[c]) :
                 /\ i <= Limit(c) - 1
                 /\ sleeps[c][i] =
                        config[c].sleep_time + (i - 1) * config[c].sleep_time_increment
            /\ (pc[c] = "sleeping" => sleepTime[c] = sleeps[c][Len(sleeps[c])])
            /\ (pc[c] = "returned" =>
                  LET k == count[c] - 1 IN
                    /\ Len(sleeps[c]) = k
                    /\ 2 * SumSeq(sleeps[c]) =
                          2 * k * config[c].sleep_time
                              + config[c].sleep_time_increment * k * (k - 1))

\* Scenario A: retry = 3, sleep_time = 1, increment = 3, two failures and a
\* success: sleeps of 1 and 4, 5 in total.
C3_Witness ==
    \E c \in Calls :
        /\ Started(c)
        /\ Limit(c) = 3
        /\ config[c].sleep_time = 1
        /\ config[c].sleep_time_increment = 3
        /\ pc[c] = "returned"
        /\ sleeps[c] = <<1, 4>>
        /\ SumSeq(sleeps[c]) = 5

\* C4: a call sleeps only after a failed attempt whose counter is below the
\* retry limit; a failure of the attempt whose counter has reached the limit
\* raises with no sleep after it (with retry = 1: no sleep at all); and the
\* step that follows a sleep leads to another attempt.
C4_NoSleepBeforeRaise ==
    /\ [](\A c \in Calls :
            /\ (pc[c] = "sleeping" =>
                    /\ count[c] < Limit(c)
                    /\ Len(sleeps[c]) = count[c])
            /\ (pc[c] = "raised" =>
                    /\ count[c] >= Limit(c)
                    /\ Len(sleeps[c]) = count[c] - 1
                    /\ (Limit(c) = 1 => sleeps[c] = <<>>)))
    /\ [][\A c \in Calls :
            /\ (pc[c] = "sleeping" /\ pc'[c] # "sleeping" =>
                    pc'[c] = "loop" /\ sleeps'[c] = sleeps[c])
            /\ (pc[c] = "loop" /\ pc'[c] # "loop" =>
                    pc'[c] = "exchange" /\ count'[c] = count[c] + 1)
            /\ (sleeps'[c] # sleeps[c] => pc'[c] = "sleeping")]_vars

C4_Witness ==
    \E c \in Calls :
        /\ pc[c] = "raised"
        /\ Limit(c) = 1
        /\ sleeps[c] = <<>>
        /\ \E d \in Calls :
             /\ pc[d] = "raised"
             /\ Limit(d) >= 2
             /\ Len(sleeps[d]) = Limit(d) - 1

\* C5 (as claimed): once an exchange has returned a response, whatever its
\* status, that exchange is the last one of the call, nothing but the
\* return of that response follows it, and the caller gets that response.
C5_ResponseIsReturnedNeverRetried ==
    \A c \in Calls : \A i \in 1 .. Exchanges(c) :
        outcomes[c][i] = "response" =>
            /\ i = Exchanges(c)
            /\ Invocations(c) = i
            /\ pc[c] \notin {"sleeping", "loop", "exchange", "raised"}
            /\ (pc[c] = "returned" => result[c].value.attempt = i)
            /\ result[c].kind # "raised"

C7_OnlyFinalFailureSurfaces ==
    \A c \in Calls :
        /\ (pc[c] \notin {"returned", "raised"} => result[c] = NoResult)
        /\ (pc[c] = "returned" => result[c].kind = "returned")
        /\ (pc[c] = "raised" =>
                /\ result[c].kind = "raised"
                /\ result[c].value.attempt = count[c]
                /\ result[c].value.attempt = Limit(c))

\* C8 (as claimed): a call is never issued on a session whose default config
\* has a retry limit below 1, nor with an override that has one, so no call
\* runs with an effective retry limit below 1.
C8_RetryBelowOneRejected ==
    \A c \in Calls :
        Started(c) =>
            /\ defaultCfg.retry >= 1
            /\ (override[c] # NoConfig => override[c].retry >= 1)
            /\ Limit(c) >= 1

\* The config whose fields the claim says take effect during a call.
Chosen(c) == IF override[c] # NoConfig THEN override[c] ELSE defaultCfg

\* C9 (as claimed): every field in effect during a call is the field of the
\* override when one is passed, and of the session default otherwise: the
\* retry limit and the backoff the loop runs on, the timeout and redirect
\* flag of every transport invocation and, in the concurrent variant, the
\* proxy the exchange goes through.
C9_OverrideAllOrNothing ==
    \A c \in Calls :
        Started(c) =>
            /\ Limit(c) = Chosen(c).retry
            /\ \A i \in 1 .. Len(sleeps[c]) :
                 sleeps[c][i] =
                    Chosen(c).sleep_time + (i - 1) * Chosen(c).sleep_time_increment
            /\ \A i \in 1 .. Invocations(c) :
                 /\ requests[c][i].timeout = Chosen(c).timeout
                 /\ requests[c][i].redirects = Redirects(Chosen(c))
                 /\ (variant = "async" =>
                        requests[c][i].proxy = ProxyOrNone(Chosen(c).proxy))

\* C10 (as claimed): in the concurrent variant, while a call is in its
\* backoff sleep every other call that has a step to take can take it: one
\* that has not started can start, one whose exchange is in flight can get
\* its outcome.
C10_SleepSuspendsOnlyCaller ==
    \A c \in Calls : \A d \in Calls \ {c} :
        (variant = "async" /\ pc[c] = "sleeping") =>
            /\ (pc[d] = "idle" => ENABLED Request(d))
            /\ (pc[d] = "exchange" => ENABLED (ExchangeReturns(d) \/ ExchangeRaises(d)))

\* C11: in the concurrent variant a call whose exchange is pending does not
\* hold the event loop, so every other call on the session can take its next
\* step while the exchange stays pending: one that has not started can start,
\* one at the top of its loop can invoke the transport, one whose own
\* exchange is in flight can get its response and return it.
C11_PendingExchangeDelaysNoOne ==
    \A c \in Calls : \A d \in Calls \ {c} :
        (variant = "async" /\ pc[c] = "exchange") =>
            /\ loopThread # c
            /\ (pc[d] = "idle" => ENABLED Request(d))
            /\ (pc[d] = "loop" => ENABLED Attempt(d))
            /\ (pc[d] = "exchange" => ENABLED ExchangeReturns(d))

\* The fast call has returned its response of its first attempt while the
\* exchange of the slow call, started first, is still pending.
C11_Witness ==
    \E slow \in Calls : \E fast \in Calls \ {slow} :
        /\ variant = "async"
        /\ pc[slow] = "exchange"
        /\ count[slow] = 1
        /\ pc[fast] = "returned"
        /\ result[fast].kind = "returned"
        /\ result[fast].value.attempt = 1

\* The sleeps of a call that have ended.
SleepsEnded(c) == Len(sleeps[c]) - (IF pc[c] = "sleeping" THEN 1 ELSE 0)

\* C12: calls on one session share no mutable retry state.  No step writes
\* the session's default config or proxy; a step changes the retry state
\* (effective config, counter, backoff, invocations, outcomes, sleeps) of one
\* call at most; and at every moment of every interleaving a call's counter,
\* backoff, invocations and sleeps are what its own effective config and its
\* own attempts make them.
C12_NoSharedRetryState ==
    /\ [](\A c \in Calls :
            Started(c) =>
                /\ Invocations(c) = count[c]
                /\ count[c] = Exchanges(c) + (IF pc[c] = "exchange" THEN 1 ELSE 0)
                /\ Len(sleeps[c]) =
                       count[c] - (IF pc[c] \in {"loop", "sleeping"} THEN 0 ELSE 1)
                /\ sleepTime[c] =
                       config[c].sleep_time
                           + SleepsEnded(c) * config[c].sleep_time_increment
                /\ \A i \in 1 .. Len(sleeps[c]) :
                       sleeps[c][i] =
                           config[c].sleep_time
                               + (i - 1) * config[c].sleep_time_increment
                /\ config[c] = EffectiveConfig(override[c], defaultCfg))
    /\ [][/\ defaultCfg' = defaultCfg
          /\ clientProxy' = clientProxy
          /\ \A c \in Calls : \A d \in Calls \ {c} :
               <<config[c], count[c], sleepTime[c], requests[c], outcomes[c],
                 sleeps[c]>>' #
               <<config[c], count[c], sleepTime[c], requests[c], outcomes[c],
                 sleeps[c]>> =>
                   <<config[d], count[d], sleepTime[d], requests[d], outcomes[d],
                     sleeps[d], pc[d]>>' =
                   <<config[d], count[d], sleepTime[d], requests[d], outcomes[d],
                     sleeps[d], pc[d]>>]_vars

\* Two calls with different effective configs are both in flight, each
\* after a backoff sleep of its own.
C12_Witness ==
    \E c \in Calls : \E d \in Calls \ {c} :
        /\ pc[c] = "exchange"
        /\ pc[d] = "exchange"
        /\ config[c] # config[d]
        /\ count[c] = 2
        /\ count[d] = 3
        /\ sleepTime[c] # sleepTime[d]

\* C13 (as claimed): in both variants the session has an explicit close
\* operation that can be called between calls while the handle is open, and
\* once the session has been torn down the handle made by the constructor
\* has been released, whatever calls succeeded or failed before.
C13_HandleReleasedExactlyOnce ==
    /\ (session = "live" /\ handle = "open" /\ closeCalls = 0 /\ Quiescent
            /\ loopThread = NoTask) => ENABLED Close
    /\ session = "discarded" => handle = "closed"

\* The host as the caller gave it, without its trailing slash if it has one.
WithoutTrailingSlash(h) == IF h[Len(h)] = "/" THEN SubSeq(h, 1, Len(h) - 1) ELSE h

\* C14: for a host given with or without a trailing slash and the relative
\* url "/widgets", every transport invocation of the call addresses
\* host + "/widgets", with one slash at the join, in both variants.
C14_OneSlashAtTheJoin ==
    \A c \in Calls :
        (Started(c) /\ call[c].url = <<"/", "widgets">>) =>
            \A i \in 1 .. Invocations(c) :
                requests[c][i].target =
                    WithoutTrailingSlash(host) \o <<"/", "widgets">>

\* The address of a request made on a session whose host was given with a
\* trailing slash, after a path.
C14_Witness ==
    \E c \in Calls :
        /\ pc[c] = "returned"
        /\ variant = "async"
        /\ host = <<"H", "/", "api", "/">>
        /\ call[c].url = <<"/", "widgets">>
        /\ requests[c][1].target = <<"H", "/", "api", "/", "widgets">>

\* C15: every failure of an attempt is retried while the counter is below
\* the retry limit, whatever its kind.  A call that sleeps holds the
\* exception of the attempt just made, of any kind; a failure makes the call
\* raise only when its counter has reached the limit; and the step after the
\* sleep goes back to the top of the loop.
C15_EveryFailureKindRetried ==
    /\ [](\A c \in Calls :
            pc[c] = "sleeping" =>
                /\ exc[c].kind = "error"
                /\ exc[c].exc \in ErrKinds
                /\ exc[c].attempt = count[c]
                /\ count[c] < Limit(c)
                /\ result[c] = NoResult)
    /\ [][\A c \in Calls :
            /\ (pc[c] \in {"exchange", "logging"} /\ pc'[c] = "raised" =>
                    count[c] >= Limit(c))
            /\ (pc[c] \in {"exchange", "logging"} /\ count[c] < Limit(c) =>
                    pc'[c] \in {pc[c], "logging", "returned", "sleeping"})
            /\ (pc[c] = "sleeping" /\ pc'[c] # "sleeping" => pc'[c] = "loop")]_vars

\* A failure that is not a transport error (a plain Exception raised by the
\* exchange) on the second attempt of three is being slept on.
C15_Witness ==
    \E c \in Calls :
        /\ pc[c] = "sleeping"
        /\ variant = "async"
        /\ exc[c].exc = "Exception"
        /\ exc[c].at = "exchange"
        /\ count[c] = 2
        /\ Limit(c) = 3

Terminal(c) == pc[c] \in {"returned", "raised"}

\* The most transport invocations a call with this config can make.
MaxAttempts(cfg) == IF cfg.retry >= 1 THEN cfg.retry ELSE 1

\* C16: every call terminates.  With exchanges, debug lines and sleeps that
\* end, a call that has been issued reaches one of the terminal states, a
\* response returned or an error raised; its counter is bounded by the retry
\* limit on the way; the terminal state carries the one outcome that goes
\* with it; and no transport invocation, sleep or log event of the call
\* follows a terminal state.
C16_EveryCallTerminates ==
    /\ \A c \in Calls : Started(c) ~> Terminal(c)
    /\ [](\A c \in Calls :
            /\ Started(c) => count[c] <= MaxAttempts(config[c])
            /\ pc[c] = "returned" <=> result[c].kind = "returned"
            /\ pc[c] = "raised" <=> result[c].kind = "raised")
    /\ [][\A c \in Calls :
            Terminal(c) =>
                /\ pc'[c] = pc[c]
                /\ result'[c] = result[c]
                /\ requests'[c] = requests[c]
                /\ sleeps'[c] = sleeps[c]
                /\ logs'[c] = logs[c]
                /\ count'[c] = count[c]]_vars

\* Both terminal states, each reached after the full retry budget of three
\* attempts was used.
C16_Witness ==
    \E c \in Calls : \E d \in Calls \ {c} :
        /\ pc[c] = "returned"
        /\ count[c] = 3
        /\ pc[d] = "raised"
        /\ count[d] = 3

\* The log events of a call that are of a given kind.
EventsOf(c, ev) == SelectSeq(logs[c], LAMBDA x : x.event = ev)

\* The attempts of a call that have failed.
FailedAttempts(c) ==
    count[c] - (IF pc[c] \in {"exchange", "logging", "returned"} THEN 1 ELSE 0)

\* The exchanges of a call that returned a response.
ResponsesOf(c) == SelectSeq(outcomes[c], LAMBDA o : o = "response")

\* The request debug event and the error event of failed attempt i.
FailedAttemptLog(i, retry) ==
    <<[level |-> "debug", event |-> "request", attempt |-> i],
      [level |-> "error", event |-> "attempt failed", attempt |-> i, retry |-> retry]>>

RECURSIVE FailedAttemptsLog(_, _)
FailedAttemptsLog(n, retry) ==
    IF n = 0 THEN <<>> ELSE FailedAttemptsLog(n - 1, retry) \o FailedAttemptLog(n, retry)

MethodOf(verb) ==
    CASE verb = "_get" -> "GET" [] verb = "_post" -> "POST"
      [] verb = "_put" -> "PUT" [] verb = "_delete" -> "DELETE"

\* A mapping as the transport is to receive it: absent when the caller gave
\* none or an empty one.
Forwarded(d) == IF d = NoValue \/ d.items = {} THEN NoValue ELSE d

\* C18: every transport invocation of a call made through a verb entry point
\* carries the verb's own method, the caller's url, the caller's params and
\* JSON body unchanged when they are non-empty and absent when they are
\* empty or were not given, the raw content for _post/_put (none for
\* _get/_delete), and the timeout and redirect flag of the per-call config
\* when one was given, which is then the call's effective config.
C18_VerbsDelegate ==
    \A c \in Calls :
        Started(c) =>
            /\ method[c] = MethodOf(call[c].verb)
            /\ override[c] = call[c].config
            /\ (call[c].config # NoConfig => config[c] = call[c].config)
            /\ (call[c].config = NoConfig => config[c] = defaultCfg)
            /\ \A i \in 1 .. Invocations(c) :
                 /\ requests[c][i].method = MethodOf(call[c].verb)
                 /\ requests[c][i].url = LocalUrl(variant, call[c].url)
                 /\ requests[c][i].params = Forwarded(call[c].params)
                 /\ requests[c][i].params # [items |-> {}]
                 /\ requests[c][i].json # [items |-> {}]
                 /\ requests[c][i].timeout = config[c].timeout
                 /\ requests[c][i].redirects = Redirects(config[c])
                 /\ IF call[c].verb \in {"_post", "_put"}
                    THEN /\ requests[c][i].json = Forwarded(call[c].json_data)
                         /\ requests[c][i].content = call[c].content
                    ELSE /\ requests[c][i].json = NoValue
                         /\ requests[c][i].content = NoValue

\* A _put with params, an empty JSON body, raw content and a per-call config
\* has returned: the transport was given PUT, the params, no JSON body and
\* the content.
C18_Witness ==
    \E c \in Calls :
        /\ pc[c] = "returned"
        /\ call[c].verb = "_put"
        /\ call[c].params = [items |-> {"k"}]
        /\ call[c].json_data = [items |-> {}]
        /\ call[c].content # NoValue
        /\ call[c].config # NoConfig
        /\ requests[c][1].method = "PUT"
        /\ requests[c][1].params = [items |-> {"k"}]
        /\ requests[c][1].json = NoValue
        /\ requests[c][1].content = call[c].content

\* C19 (as claimed): every transport invocation of a call presents the same
\* request as the first one: the same method, url, params, JSON body,
\* timeout and redirect flag and, when raw content is given, the content
\* stream at its beginning.
C19_EveryAttemptSameRequest ==
    \A c \in Calls :
        \A i \in 1 .. Invocations(c) :
            /\ requests[c][i].method = requests[c][1].method
            /\ requests[c][i].url = requests[c][1].url
            /\ requests[c][i].params = requests[c][1].params
            /\ requests[c][i].json = requests[c][1].json
            /\ requests[c][i].timeout = requests[c][1].timeout
            /\ requests[c][i].redirects = requests[c][1].redirects
            /\ requests[c][i].content = requests[c][1].content
            /\ requests[c][i].from = 0

\* C20: the counter is at least 1 whenever the transport is invoked, and a
\* call invokes the transport at most max(1, retry) times; with an effective
\* retry limit of 0 or less a call makes one attempt, never sleeps, and
\* raises if that attempt fails; and with a sleep_time_increment of 0 or
\* more the backoff value of a call never decreases.
C20_CounterAndBackoffBounds ==
    /\ [](\A c \in Calls :
            Started(c) =>
                /\ (Invocations(c) >= 1 => count[c] >= 1)
                /\ (pc[c] = "exchange" => count[c] >= 1)
                /\ Invocations(c) <= (IF Limit(c) >= 1 THEN Limit(c) ELSE 1)
                /\ (Limit(c) <= 0 =>
                        /\ sleeps[c] = <<>>
                        /\ pc[c] # "sleeping"
                        /\ (Terminal(c) => Invocations(c) = 1))
                /\ (config[c].sleep_time_increment >= 0 =>
                        /\ sleepTime[c] >= config[c].sleep_time
                        /\ \A i \in 1 .. Len(sleeps[c]) - 1 :
                               sleeps[c][i] <= sleeps[c][i + 1]))
    /\ [][\A c \in Calls :
            /\ (Started(c) /\ config[c].sleep_time_increment >= 0 =>
                    sleepTime'[c] >= sleepTime[c])
            /\ (Started(c) /\ Limit(c) <= 0 /\ pc[c] \in {"exchange", "logging"} =>
                    pc'[c] \in {pc[c], "logging", "returned", "raised"})]_vars

\* A call with an effective retry limit below 1 has raised after its one
\* attempt without a sleep, next to a call of limit 3 whose backoff grew
\* over its two sleeps.
C20_Witness ==
    \E c \in Calls : \E d \in Calls \ {c} :
        /\ pc[c] = "raised"
        /\ Limit(c) = -1
        /\ Invocations(c) = 1
        /\ sleeps[c] = <<>>
        /\ Started(d)
        /\ Limit(d) = 3
        /\ Len(sleeps[d]) = 2
        /\ sleeps[d][1] < sleeps[d][2]

====
